---- MODULE Spec2Model ----
(***************************************************************************)
(* Model of the design-token schema validator: the Schema Loader           *)
(* (loadSchema + schemaCache), the Reference Resolver                      *)
(* (loadReferencedSchemas / processValue) and the Validation Orchestrator  *)
(* (validate, validateFile, main) of packages/skill/src/validate.ts and    *)
(* of its single-file variant.                                             *)
(*                                                                         *)
(* Strings are sequences of atoms.  An atom is either one of the           *)
(* separator characters the code looks at ("/", "#", ".", "..") or a run   *)
(* of other characters ("format.json", "https:", "a").  "https://h/x" is   *)
(* <<"https:", "/", "/", "h", "/", "x">>.                                  *)
(***************************************************************************)
EXTENDS Integers, Sequences, FiniteSets, TLC

(***************************************************************************)
(* String helpers (String.prototype.startsWith / includes / split).        *)
(***************************************************************************)
StartsWith(s, p) == Len(s) >= Len(p) /\ SubSeq(s, 1, Len(p)) = p

Includes(s, a) == \E i \in 1..Len(s) : s[i] = a

RECURSIVE SplitOn(_, _)
\* s.split(sep): the segments between occurrences of the atom sep, empty
\* segments included; always at least one segment.
SplitOn(s, sep) ==
  IF \A i \in 1..Len(s) : s[i] # sep
  THEN <<s>>
  ELSE LET i == CHOOSE j \in 1..Len(s) :
                   s[j] = sep /\ \A k \in 1..(j-1) : s[k] # sep
       IN <<SubSeq(s, 1, i-1)>> \o SplitOn(SubSeq(s, i+1, Len(s)), sep)

RECURSIVE JoinWith(_, _)
\* segs.join(sep)
JoinWith(segs, sep) ==
  IF Len(segs) = 0 THEN <<>>
  ELSE IF Len(segs) = 1 THEN segs[1]
  ELSE segs[1] \o <<sep>> \o JoinWith(Tail(segs), sep)

Last(s) == s[Len(s)]
Front(s) == SubSeq(s, 1, Len(s) - 1)

(***************************************************************************)
(* path.posix.normalize / join / dirname of Node.js, as used by the code.  *)
(***************************************************************************)
RECURSIVE NormalizeSegs(_, _, _)
\* normalizeString: drop empty and "." segments, let ".." remove the
\* segment before it; above the start ".." is kept only for relative paths.
NormalizeSegs(segs, acc, allowAboveRoot) ==
  IF Len(segs) = 0 THEN acc
  ELSE LET h == Head(segs)
           t == Tail(segs)
       IN IF h = <<>> \/ h = <<".">>
          THEN NormalizeSegs(t, acc, allowAboveRoot)
          ELSE IF h = <<"..">>
          THEN IF Len(acc) > 0 /\ Last(acc) # <<"..">>
               THEN NormalizeSegs(t, Front(acc), allowAboveRoot)
               ELSE IF allowAboveRoot
               THEN NormalizeSegs(t, Append(acc, h), allowAboveRoot)
               ELSE NormalizeSegs(t, acc, allowAboveRoot)
          ELSE NormalizeSegs(t, Append(acc, h), allowAboveRoot)

Normalize(p) ==
  IF Len(p) = 0 THEN <<".">>
  ELSE LET isAbsolute == p[1] = "/"
           trailing   == Last(p) = "/"
           body == JoinWith(NormalizeSegs(SplitOn(p, "/"), <<>>, ~isAbsolute), "/")
       IN IF Len(body) = 0
          THEN IF isAbsolute THEN <<"/">>
               ELSE IF trailing THEN <<".", "/">> ELSE <<".">>
          ELSE (IF isAbsolute THEN <<"/">> ELSE <<>>) \o body
               \o (IF trailing THEN <<"/">> ELSE <<>>)

\* path.join(a, b): the non-empty arguments joined by "/" and normalized.
Join(a, b) ==
  IF Len(a) = 0 /\ Len(b) = 0 THEN <<".">>
  ELSE IF Len(a) = 0 THEN Normalize(b)
  ELSE IF Len(b) = 0 THEN Normalize(a)
  ELSE Normalize(a \o <<"/">> \o b)

RECURSIVE StripTrailingSlashes(_)
StripTrailingSlashes(p) ==
  IF Len(p) > 1 /\ Last(p) = "/" THEN StripTrailingSlashes(Front(p)) ELSE p

\* path.dirname(p)
Dirname(p) ==
  IF Len(p) = 0 THEN <<".">>
  ELSE LET q == StripTrailingSlashes(p)
           slashes == {i \in 1..Len(q) : q[i] = "/"}
       IN IF q = <<"/">> THEN <<"/">>
          ELSE IF slashes = {} THEN <<".">>
          ELSE LET i == CHOOSE j \in slashes : \A k \in slashes : k <= j
               IN IF i = 1 THEN <<"/">>
                  ELSE StripTrailingSlashes(SubSeq(q, 1, i - 1))


(***************************************************************************)
(* new URL(uri).pathname for an http(s) identifier: the part after the     *)
(* host up to the first "?" or "#", with dot segments removed; "/" when    *)
(* the URL has no path.                                                    *)
(***************************************************************************)
RECURSIVE UrlSegs(_, _)
UrlSegs(segs, acc) ==
  IF Len(segs) = 0 THEN acc
  ELSE LET h == Head(segs)
           t == Tail(segs)
           isLast == Len(t) = 0
       IN IF h = <<"..">>
          THEN UrlSegs(t, (IF Len(acc) > 0 THEN Front(acc) ELSE acc)
                          \o (IF isLast THEN << <<>> >> ELSE <<>>))
          ELSE IF h = <<".">>
          THEN UrlSegs(t, acc \o (IF isLast THEN << <<>> >> ELSE <<>>))
          ELSE UrlSegs(t, Append(acc, h))

UrlPathname(uri) ==
  LET afterScheme == SubSeq(uri, 4, Len(uri))
      noFragment  == Head(SplitOn(Head(SplitOn(afterScheme, "#")), "?"))
      parts       == SplitOn(noFragment, "/")
  IN IF Len(parts) = 1 THEN <<"/">>
     ELSE <<"/">> \o JoinWith(UrlSegs(Tail(parts), <<>>), "/")

\* new URL(uri) throws on an identifier without a host.
UrlValid(uri) ==
  LET afterScheme == SubSeq(uri, 4, Len(uri))
  IN Len(afterScheme) > 0 /\ afterScheme[1] \notin {"/", "#", "?"}

IsRemote(uri) ==
  \/ StartsWith(uri, <<"https:", "/", "/">>)
  \/ StartsWith(uri, <<"http:", "/", "/">>)

(***************************************************************************)
(* JSON values.  t is the type tag; k/v are an object's keys and values    *)
(* (v alone the items of an array); s is a string's value; b is a          *)
(* boolean's value (for a number: whether it is non-zero).                 *)
(***************************************************************************)
JNull    == [t |-> "null", k |-> <<>>, v |-> <<>>, s |-> <<>>, b |-> FALSE]
JBool(x) == [t |-> "bool", k |-> <<>>, v |-> <<>>, s |-> <<>>, b |-> x]
JStr(x)  == [t |-> "str",  k |-> <<>>, v |-> <<>>, s |-> x,    b |-> FALSE]
JArr(xs) == [t |-> "arr",  k |-> <<>>, v |-> xs,   s |-> <<>>, b |-> FALSE]
JObj(ks, xs) == [t |-> "obj", k |-> ks, v |-> xs, s |-> <<>>, b |-> FALSE]

\* JavaScript truthiness of a parsed JSON value.
Truthy(val) ==
  CASE val.t = "null" -> FALSE
    [] val.t = "bool" -> val.b
    [] val.t = "num"  -> val.b
    [] val.t = "str"  -> Len(val.s) > 0
    [] OTHER          -> TRUE

HasKey(obj, key) == obj.t = "obj" /\ \E i \in 1..Len(obj.k) : obj.k[i] = key
Get(obj, key) == obj.v[CHOOSE i \in 1..Len(obj.k) : obj.k[i] = key]

\* typeof obj.$ref === "string"
HasStringRef(obj) == HasKey(obj, "$ref") /\ Get(obj, "$ref").t = "str"

(***************************************************************************)
(* Configuration (validate.ts lines 28-41).                                *)
(***************************************************************************)
SCHEMA_DIR == <<"/", "s">>

SCHEMA_PATHS(type) ==
  IF type = "tokens" THEN Join(SCHEMA_DIR, <<"format.json">>)
  ELSE Join(SCHEMA_DIR, <<"resolver.json">>)

\* Mutant of ValidTypes: both scripts accept each other's kinds.
ValidTypes_Either(v) == {"tokens", "resolvers", "resolver"}

\* const validTypes, line 272 (single-file variant: line 266)
ValidTypes(v) ==
  IF v = "glob" THEN {"tokens", "resolvers"} ELSE {"tokens", "resolver"}

(***************************************************************************)
(* Schema Loader.                                                          *)
(***************************************************************************)
\* Mutant of ResolveSchemaPath: the branch for absolute paths is missing.
ResolveSchemaPath_NoAbsolute(uri) ==
  IF IsRemote(uri)
  THEN Join(SCHEMA_DIR, Last(SplitOn(UrlPathname(uri), "/")))
  ELSE Join(SCHEMA_DIR, uri)

\* loadSchema lines 60-72: identifier -> filesystem path.
ResolveSchemaPath(uri) ==
  IF IsRemote(uri)
  THEN Join(SCHEMA_DIR, Last(SplitOn(UrlPathname(uri), "/")))
  ELSE IF StartsWith(uri, <<"/">>) THEN uri
  ELSE Join(SCHEMA_DIR, uri)

\* Mutant of SchemaCacheHas: the "already loaded" test never succeeds.
SchemaCacheHas_Never(cache, path) == FALSE

\* schemaCache.has(path)
SchemaCacheHas(cache, path) == path \in DOMAIN cache

\* const cached = schemaCache.get(path); if (cached) return cached
SchemaCacheHit(cache, path) == path \in DOMAIN cache /\ Truthy(cache[path])

\* Mutant of SchemaCacheSet: storing a schema evicts every other entry.
SchemaCacheSet_Evicting(cache, path, schema) == [p \in {path} |-> schema]

\* Mutant of SchemaCacheSet: the schema is stored under its file name.
SchemaCacheSet_ByName(cache, path, schema) ==
  [p \in DOMAIN cache \cup {<<Last(path)>>} |->
     IF p = <<Last(path)>> THEN schema ELSE cache[p]]

\* Mutant of SchemaCacheSet: the loaded schema is not stored.
SchemaCacheSet_Dropped(cache, path, schema) == cache

\* schemaCache.set(path, schema)
SchemaCacheSet(cache, path, schema) ==
  [p \in DOMAIN cache \cup {path} |-> IF p = path THEN schema ELSE cache[p]]

\* Mutant of LoadSchema: the path is entered into the cache before the
\* content is parsed.
LoadSchema_StoresBeforeParse(disk, cache, uri) ==
  IF IsRemote(uri) /\ ~UrlValid(uri)
  THEN [uri |-> uri, path |-> <<>>, outcome |-> "url_error", read |-> <<>>,
        key |-> <<>>, schema |-> JNull, cache |-> cache]
  ELSE
  LET schemaPath == ResolveSchemaPath(uri)
  IN IF SchemaCacheHit(cache, schemaPath)
     THEN [uri |-> uri, path |-> schemaPath, outcome |-> "hit", read |-> <<>>,
           key |-> <<>>, schema |-> cache[schemaPath], cache |-> cache]
     ELSE IF schemaPath \notin DOMAIN disk
     THEN [uri |-> uri, path |-> schemaPath, outcome |-> "read_error",
           read |-> schemaPath, key |-> <<>>, schema |-> JNull, cache |-> cache]
     ELSE IF ~disk[schemaPath].parses
     THEN [uri |-> uri, path |-> schemaPath, outcome |-> "parse_error",
           read |-> schemaPath, key |-> <<>>, schema |-> JNull,
           cache |-> SchemaCacheSet(cache, schemaPath, JNull)]
     ELSE [uri |-> uri, path |-> schemaPath, outcome |-> "loaded",
           read |-> schemaPath, key |-> schemaPath,
           schema |-> disk[schemaPath].json,
           cache |-> SchemaCacheSet(cache, schemaPath, disk[schemaPath].json)]

\* One call of loadSchema against the file system disk and the cache.
\* outcome: "url_error" (new URL throws), "hit", "read_error" (readFile
\* rejects), "parse_error" (JSON.parse throws) or "loaded".
LoadSchema(disk, cache, uri) ==
  IF IsRemote(uri) /\ ~UrlValid(uri)
  THEN [uri |-> uri, path |-> <<>>, outcome |-> "url_error", read |-> <<>>,
        key |-> <<>>, schema |-> JNull, cache |-> cache]
  ELSE
  LET schemaPath == ResolveSchemaPath(uri)
  IN IF SchemaCacheHit(cache, schemaPath)
     THEN [uri |-> uri, path |-> schemaPath, outcome |-> "hit", read |-> <<>>,
           key |-> <<>>, schema |-> cache[schemaPath], cache |-> cache]
     ELSE IF schemaPath \notin DOMAIN disk
     THEN [uri |-> uri, path |-> schemaPath, outcome |-> "read_error",
           read |-> schemaPath, key |-> <<>>, schema |-> JNull, cache |-> cache]
     ELSE IF ~disk[schemaPath].parses
     THEN [uri |-> uri, path |-> schemaPath, outcome |-> "parse_error",
           read |-> schemaPath, key |-> <<>>, schema |-> JNull, cache |-> cache]
     ELSE [uri |-> uri, path |-> schemaPath, outcome |-> "loaded",
           read |-> schemaPath, key |-> schemaPath,
           schema |-> disk[schemaPath].json,
           cache |-> SchemaCacheSet(cache, schemaPath, disk[schemaPath].json)]

\* Mutant of LoadThrew: a JSON.parse failure is swallowed.
LoadThrew_IgnoresParse(r) == r.outcome \in {"url_error", "read_error"}

LoadThrew(r) == r.outcome \in {"url_error", "read_error", "parse_error"}

\* The entry a call leaves in the call log.
CallEntry(r) == [uri |-> r.uri, path |-> r.path, outcome |-> r.outcome,
                 read |-> r.read, key |-> r.key]


(***************************************************************************)
(* Reference Resolver.                                                     *)
(***************************************************************************)
RECURSIVE WalkRefs(_)
RECURSIVE WalkItems(_)
RECURSIVE WalkProps(_, _)
\* processValue lines 98-135: the string values of $ref, in the order the
\* depth-first walk meets them.  Scalars and null end the walk; arrays are
\* walked item by item; an object yields its own $ref first and then the
\* refs below each of its keys other than "$ref".
WalkRefs(value) ==
  IF value.t = "arr" THEN WalkItems(value.v)
  ELSE IF value.t = "obj"
  THEN (IF HasStringRef(value) THEN <<Get(value, "$ref").s>> ELSE <<>>)
       \o WalkProps(value.k, value.v)
  ELSE <<>>

WalkItems(items) ==
  IF Len(items) = 0 THEN <<>>
  ELSE WalkRefs(Head(items)) \o WalkItems(Tail(items))

WalkProps(keys, vals) ==
  IF Len(keys) = 0 THEN <<>>
  ELSE (IF Head(keys) # "$ref" THEN WalkRefs(Head(vals)) ELSE <<>>)
       \o WalkProps(Tail(keys), Tail(vals))

\* Mutant of IsInternalRef: equality with "#" instead of startsWith.
IsInternalRef_ExactHash(v, ref) == ref = <<"#">>

\* Mutant of IsInternalRef: both variants test startsWith only.
IsInternalRef_StartsOnly(v, ref) == StartsWith(ref, <<"#">>)

\* The test on obj.$ref that lets a reference through to the loader:
\* validate.ts line 111 (glob variant) and line 136 of the single-file
\* variant, negated.
IsInternalRef(v, ref) ==
  IF v = "glob" THEN StartsWith(ref, <<"#">>)
  ELSE StartsWith(ref, <<"#">>) \/ Includes(ref, "#")

\* const refPath = join(baseDir, obj.$ref)
RefPath(baseDir, ref) == Join(baseDir, ref)

\* Mutant of RecurseBaseDir: the caller's base directory is passed on.
RecurseBaseDir_Parent(baseDir, refPath) == baseDir

\* The base directory handed to the recursive call: dirname(refPath).
RecurseBaseDir(baseDir, refPath) == Dirname(refPath)

(***************************************************************************)
(* The validation engine's registry, as far as the resolver uses it:       *)
(* schemas holds the keys given to addSchema, refs the identifiers ($id,   *)
(* or the key when there is no $id) of the registered schemas.             *)
(***************************************************************************)
\* The engine strips one trailing "#" from keys and identifiers.
NormalizeId(id) == IF Len(id) > 0 /\ Last(id) = "#" THEN Front(id) ELSE id

\* refSchema.$id, or <<>> when the schema declares none.
SchemaIdOf(schema) ==
  IF HasKey(schema, "$id") /\ Get(schema, "$id").t = "str"
  THEN Get(schema, "$id").s ELSE <<>>

\* const schemaId = refSchema.$id || obj.$ref
RegistrationId(schema, ref) ==
  IF Len(SchemaIdOf(schema)) > 0 THEN SchemaIdOf(schema) ELSE ref

\* The key handed to ajv.addSchema(refSchema, obj.$ref): the literal $ref,
\* whatever the schema declares.
RegistrationKey(schema, ref) == ref

\* ajv.getSchema(keyRef) finds a schema
AjvGetSchema(schemas, refs, keyRef) == NormalizeId(keyRef) \in schemas \cup refs

\* ajv.addSchema(schema, key): ok is FALSE when the engine throws
\* "schema with key or id already exists".
AjvAddSchema(schemas, refs, schema, key) ==
  LET nkey   == NormalizeId(key)
      baseId == NormalizeId(IF Len(SchemaIdOf(schema)) > 0
                            THEN SchemaIdOf(schema) ELSE nkey)
      known  == schemas \cup refs
  IN IF nkey \in known
     THEN [ok |-> FALSE, schemas |-> schemas, refs |-> refs]
     ELSE IF ~StartsWith(baseId, <<"#">>) /\ Len(baseId) > 0 /\ baseId \in known
     THEN [ok |-> FALSE, schemas |-> schemas, refs |-> refs]
     ELSE [ok |-> TRUE, schemas |-> schemas \cup {nkey},
           refs |-> IF StartsWith(baseId, <<"#">>) THEN refs
                    ELSE refs \cup {baseId}]


(***************************************************************************)
(* Bounds.                                                                 *)
(***************************************************************************)
\* Most files a glob expansion returns.
MaxTargets == 2
\* Deepest nesting of loadReferencedSchemas the model follows.
MaxDepth == 7
\* Most loadSchema calls in a run of the loader on its own.
MaxCalls == 3
\* Number of spec files the build script is followed on.
MaxSpecFiles == 2

(***************************************************************************)
(* Schema files the runs are checked on.                                   *)
(***************************************************************************)
RefObj(ref) == JObj(<<"$ref">>, <<JStr(ref)>>)

File(json) == [present |-> TRUE, parses |-> TRUE, json |-> json]
Unparseable == [present |-> TRUE, parses |-> FALSE, json |-> JNull]
Missing == [present |-> FALSE, parses |-> FALSE, json |-> JNull]

UrlOf(name) == <<"https:", "/", "/", "h", "/", "v1", "/", name>>

RootFiles ==
  { \* refs into two directories and an internal ref
    File(JObj(<<"$id", "properties", "items">>,
              <<JStr(UrlOf("format.json")),
                JObj(<<"x", "y">>,
                     <<RefObj(<<"a", "/", "x.json">>),
                       RefObj(<<"b", "/", "y.json">>)>>),
                JArr(<<RefObj(<<"#", "/", "defs", "/", "z">>)>>)>>)),
    \* a reference to itself and two spellings of one path
    File(JObj(<<"$ref", "allOf">>,
              <<JStr(<<"format.json">>),
                JArr(<<RefObj(<<"a", "/", "x.json">>),
                       RefObj(<<".", "/", "a", "/", "x.json">>)>>)>>)),
    \* a remote URL
    File(JObj(<<"allOf">>, <<JArr(<<RefObj(UrlOf("common.json"))>>)>>)),
    \* a file reference with a fragment
    File(JObj(<<"properties">>,
              <<JObj(<<"q">>,
                     <<RefObj(<<"a", "/", "x.json", "#", "/", "defs", "/", "q">>)>>)>>)),
    \* a property named "$ref" whose definition holds a reference
    File(JObj(<<"properties">>,
              <<JObj(<<"$ref", "w">>,
                     <<RefObj(<<"b", "/", "y.json">>),
                       RefObj(<<"a", "/", "x.json">>)>>)>>)),
    \* the boolean schema false
    File(JBool(FALSE)),
    Unparseable,
    Missing }

XFiles ==
  { File(RefObj(<<"common.json">>)),
    File(JObj(<<"$id", "allOf">>,
              <<JStr(UrlOf("x.json")),
                JArr(<<RefObj(<<"..", "/", "b", "/", "y.json">>),
                       RefObj(<<"common.json">>)>>)>>)),
    File(RefObj(<<"..", "/", "format.json">>)),
    File(JNull),
    Unparseable,
    Missing }

YFiles ==
  { File(RefObj(<<"common.json">>)),
    File(RefObj(<<"..", "/", "a", "/", "x.json">>)),
    File(JObj(<<"$id">>, <<JStr(UrlOf("x.json"))>>)) }

BCommonFiles ==
  { File(JObj(<<>>, <<>>)),
    File(JObj(<<"$id">>, <<JStr(UrlOf("b-common.json"))>>)),
    Missing }

P(segs) == <<"/">> \o JoinWith(segs, "/")

\* The schema directory with the chosen files in place.
Disk(root, x, y, bcommon) ==
  LET all == [p \in { P(<< <<"s">>, <<"format.json">> >>),
                      P(<< <<"s">>, <<"resolver.json">> >>),
                      P(<< <<"s">>, <<"common.json">> >>),
                      P(<< <<"s">>, <<"a">>, <<"x.json">> >>),
                      P(<< <<"s">>, <<"a">>, <<"common.json">> >>),
                      P(<< <<"s">>, <<"b">>, <<"y.json">> >>),
                      P(<< <<"s">>, <<"b">>, <<"common.json">> >>) } |->
               CASE p = P(<< <<"s">>, <<"format.json">> >>) -> root
                 [] p = P(<< <<"s">>, <<"resolver.json">> >>) ->
                      File(RefObj(<<"common.json">>))
                 [] p = P(<< <<"s">>, <<"a">>, <<"x.json">> >>) -> x
                 [] p = P(<< <<"s">>, <<"b">>, <<"y.json">> >>) -> y
                 [] p = P(<< <<"s">>, <<"b">>, <<"common.json">> >>) -> bcommon
                 [] OTHER -> File(JObj(<<>>, <<>>))]
  IN [p \in {q \in DOMAIN all : all[q].present} |-> all[p]]

(***************************************************************************)
(* Validation targets.                                                     *)
(***************************************************************************)
\* Target paths as sequences of UTF-16 code units: "a", "ab", "b", "bb", ...
TargetName(i) ==
  IF i % 2 = 1 THEN <<97 + (i \div 2)>> ELSE <<97 + ((i - 1) \div 2), 98>>

TargetNames == {TargetName(i) : i \in 1..MaxTargets}

\* What a target file holds: it cannot be read, it is not JSON, or it is
\* JSON that the compiled validator accepts or rejects.
TargetContents == {"unreadable", "not_json", "accepted", "rejected"}

\* A directory whose name matches the pattern: "d".
DirNames == {<<100>>}

IsFile(name) == name \notin DirNames

\* What matches the pattern on disk, in the order the expansion meets it.
GlobMatches ==
  UNION { {f \in [1..n -> TargetNames \cup DirNames] :
             \A i, j \in 1..n : i # j => f[i] # f[j]}
          : n \in 0..(MaxTargets + Cardinality(DirNames)) }

\* glob(pattern, {nodir: true}): the matches, without directories when
\* nodir is set.
Glob(found, nodir) == IF nodir THEN SelectSeq(found, IsFile) ELSE found

RECURSIVE LexLess(_, _)
\* The order of Array.prototype.sort() on strings: by code unit, a proper
\* prefix first.
LexLess(a, b) ==
  IF Len(b) = 0 THEN FALSE
  ELSE IF Len(a) = 0 THEN TRUE
  ELSE IF Head(a) # Head(b) THEN Head(a) < Head(b)
  ELSE LexLess(Tail(a), Tail(b))

\* Mutant of FindFilesResult: the expansion's order is kept.
FindFilesResult_Unsorted(globbed) == globbed

\* findFiles lines 165-168
FindFilesResult(globbed) == SortSeq(globbed, LexLess)


(***************************************************************************)
(* State.                                                                  *)
(***************************************************************************)
VARIABLES
  variant,      \* "glob" (validate.ts) or "single" (the single-file script)
  argv,         \* process.argv[2] and process.argv[3]
  fs,           \* the schema files on disk: path -> [parses, json]
  pc,           \* where the run is
  schemaCache,  \* the module-level Map: path -> parsed schema
  schema,       \* validate's local: the root schema
  ajvSchemas,   \* the engine's registry: keys
  ajvRefs,      \* the engine's registry: identifiers
  stack,        \* the active loadReferencedSchemas calls, innermost last
  compiled,     \* validateFn exists
  files,        \* the targets, in processing order
  idx,          \* the next target
  allValid,     \* validate's accumulator
  results,      \* the FileValidationResults returned so far
  output,       \* the pass/fail markers printed so far
  exitCode,     \* the code passed to process.exit, -1 while running
  \* history
  calls,        \* every loadSchema call: identifier, path, outcome
  reads,        \* every readFile of a schema path
  added,        \* every successful addSchema: file, key, the $ref, the $id
  visited,      \* every schema file whose document was walked
  refLog,       \* every $ref the walk handled, and how
  targetReads,  \* every readFile of a target, and what it found
  matched,      \* what matched the glob pattern on disk, directories included
  evaluated,    \* every target the compiled validator was applied to
  build,        \* the build script's run: position, file system, operations
  fatal         \* why the run aborted, "none" otherwise

vars == <<variant, argv, fs, pc, schemaCache, schema, ajvSchemas, ajvRefs,
          stack, compiled, files, idx, allValid, results, output, exitCode,
          calls, reads, added, visited, refLog, targetReads, matched,
          evaluated, build, fatal>>

\* Disks that differ in format.json only.
LoaderDisks ==
  {Disk(r, File(JNull), File(RefObj(<<"common.json">>)), Missing) :
     r \in RootFiles}

\* The state of the build variable in runs of the validator.
NoBuild == [pc |-> "idle"]

Kinds == {"tokens", "resolvers", "resolver", "bogus", ""}

Disks ==
  {Disk(r, x, y, b) : r \in RootFiles, x \in XFiles, y \in YFiles,
                      b \in BCommonFiles}

Blank ==
  /\ schemaCache = <<>>
  /\ schema = JNull
  /\ ajvSchemas = {}
  /\ ajvRefs = {}
  /\ stack = <<>>
  /\ compiled = FALSE
  /\ files = <<>>
  /\ idx = 0
  /\ allValid = TRUE
  /\ results = <<>>
  /\ output = <<>>
  /\ exitCode = -1
  /\ calls = <<>>
  /\ reads = <<>>
  /\ added = <<>>
  /\ visited = <<>>
  /\ refLog = <<>>
  /\ targetReads = <<>>
  /\ matched = <<>>
  /\ evaluated = <<>>
  /\ fatal = "none"

Init ==
  /\ variant \in {"glob", "single"}
  /\ argv \in [kind : Kinds, file : {<<>>, TargetName(1)}]
  /\ fs \in Disks
  \* resolver.json and the one file it refers to are the same on every disk:
  \* runs on the resolver schema are followed on the disks that differ in
  \* format.json only
  /\ argv.kind \in {"resolvers", "resolver"} => fs \in LoaderDisks
  /\ pc = "start"
  /\ build = NoBuild
  /\ Blank

(***************************************************************************)
(* main and validate.                                                      *)
(***************************************************************************)
\* Mutant of ExitCodeOf: every run is reported as failed.
ExitCodeOf_One(valid) == 1

\* Mutant of ExitCodeOf: the result is ignored.
ExitCodeOf_Zero(valid) == 0

\* process.exit(valid ? 0 : 1)
ExitCodeOf(valid) == IF valid THEN 0 ELSE 1

\* main().catch(...): process.exit(1)
CatchExitCode == 1

\* Mutant of UsageOk: the single-file script runs without a file argument.
UsageOk_FileOptional(v, args) ==
  /\ args.kind # ""
  /\ args.kind \in ValidTypes(v)

\* main's argument check, lines 274-277 (single-file variant: line 269)
UsageOk(v, args) ==
  /\ args.kind # ""
  /\ args.kind \in ValidTypes(v)
  /\ v = "single" => args.file # <<>>

\* An exception reaches main().catch: the process exits.
Abort(why) ==
  /\ pc' = "exited"
  /\ exitCode' = CatchExitCode
  /\ fatal' = why

MainUsageError ==
  /\ UNCHANGED build
  /\ pc = "start"
  /\ ~UsageOk(variant, argv)
  /\ pc' = "exited"
  /\ exitCode' = 1
  /\ fatal' = "usage"
  /\ UNCHANGED <<variant, argv, fs, schemaCache, schema, ajvSchemas, ajvRefs,
                 stack, compiled, files, idx, allValid, results, output,
                 calls, reads, added, visited, refLog, targetReads, matched, evaluated>>

LogRead(r) == IF r.read # <<>> THEN Append(reads, r.read) ELSE reads

\* validate lines 217-226: load the root schema, create the engine, start
\* the resolver on the root with the root's directory as base.
LoadRoot ==
  /\ UNCHANGED build
  /\ pc = "start"
  /\ UsageOk(variant, argv)
  /\ LET schemaPath == SCHEMA_PATHS(argv.kind)
         r == LoadSchema(fs, schemaCache, schemaPath)
     IN /\ calls' = Append(calls, CallEntry(r))
        /\ reads' = LogRead(r)
        /\ schemaCache' = r.cache
        /\ IF LoadThrew(r)
           THEN /\ Abort("schema_load")
                /\ UNCHANGED <<schema, stack, visited>>
           ELSE /\ schema' = r.schema
                /\ stack' = <<[file |-> r.path,
                               baseDir |-> Dirname(schemaPath),
                               refs |-> WalkRefs(r.schema)]>>
                /\ visited' = <<r.path>>
                /\ pc' = "resolve"
                /\ UNCHANGED <<exitCode, fatal>>
  /\ UNCHANGED <<variant, argv, fs, ajvSchemas, ajvRefs, compiled, files, idx,
                 allValid, results, output, added, refLog, targetReads, matched, evaluated>>

(***************************************************************************)
(* loadReferencedSchemas, one $ref at a time.                              *)
(***************************************************************************)
\* active: the referenced path is the file of a call still on the stack.
RefEntry(frame, ref, how, path) ==
  [file |-> frame.file, baseDir |-> frame.baseDir, ref |-> ref, how |-> how,
   path |-> path,
   active |-> \E k \in 1..Len(stack) : stack[k].file = path]

\* processValue lines 111-127 for the next $ref of the innermost call.
\* engineOk: whether the engine's getSchema, when it finds the identifier,
\* also manages to compile what it found (it throws otherwise).
ResolveRef ==
  /\ UNCHANGED build
  /\ pc = "resolve"
  /\ Len(stack) > 0
  /\ Len(Last(stack).refs) > 0
  /\ \E engineOk \in BOOLEAN :
     LET top  == Last(stack)
         ref  == Head(top.refs)
         rest == [stack EXCEPT ![Len(stack)].refs = Tail(top.refs)]
         refPath == RefPath(top.baseDir, ref)
         r    == LoadSchema(fs, schemaCache, refPath)
         schemaId == RegistrationId(r.schema, ref)
         found == AjvGetSchema(ajvSchemas, ajvRefs, schemaId)
         add  == AjvAddSchema(ajvSchemas, ajvRefs, r.schema,
                              RegistrationKey(r.schema, ref))
     IN
     IF IsInternalRef(variant, ref)
     THEN /\ refLog' = Append(refLog, RefEntry(top, ref, "internal", <<>>))
          /\ stack' = rest
          /\ UNCHANGED <<pc, schemaCache, ajvSchemas, ajvRefs, exitCode, calls,
                         reads, added, visited, fatal>>
     ELSE IF SchemaCacheHas(schemaCache, refPath)
     THEN /\ refLog' = Append(refLog, RefEntry(top, ref, "cached", refPath))
          /\ stack' = rest
          /\ UNCHANGED <<pc, schemaCache, ajvSchemas, ajvRefs, exitCode, calls,
                         reads, added, visited, fatal>>
     ELSE /\ refLog' = Append(refLog, RefEntry(top, ref, "load", refPath))
          /\ calls' = Append(calls, CallEntry(r))
          /\ reads' = LogRead(r)
          /\ schemaCache' = r.cache
          /\ IF LoadThrew(r)
             THEN /\ Abort("schema_load")
                  /\ UNCHANGED <<ajvSchemas, ajvRefs, stack, added, visited>>
             ELSE IF r.schema.t = "null"
             THEN \* refSchema.$id on null: TypeError
                  /\ Abort("type_error")
                  /\ UNCHANGED <<ajvSchemas, ajvRefs, stack, added, visited>>
             ELSE IF found /\ ~engineOk
             THEN /\ Abort("engine_error")
                  /\ UNCHANGED <<ajvSchemas, ajvRefs, stack, added, visited>>
             ELSE IF ~found /\ ~add.ok
             THEN /\ Abort("already_exists")
                  /\ UNCHANGED <<ajvSchemas, ajvRefs, stack, added, visited>>
             ELSE /\ Len(stack) < MaxDepth
                  /\ ajvSchemas' = (IF found THEN ajvSchemas ELSE add.schemas)
                  /\ ajvRefs' = (IF found THEN ajvRefs ELSE add.refs)
                  /\ added' = (IF found THEN added
                               ELSE Append(added,
                                      [file |-> r.path,
                                       key |-> RegistrationKey(r.schema, ref),
                                       ref |-> ref,
                                       id |-> SchemaIdOf(r.schema)]))
                  /\ stack' = Append(rest,
                                [file |-> r.path,
                                 baseDir |-> RecurseBaseDir(top.baseDir, refPath),
                                 refs |-> WalkRefs(r.schema)])
                  /\ visited' = Append(visited, r.path)
                  /\ UNCHANGED <<pc, exitCode, fatal>>
  /\ UNCHANGED <<variant, argv, fs, schema, compiled, files, idx, allValid,
                 results, output, targetReads, matched, evaluated>>

\* Mutant of AfterResolver: validate goes from the resolver straight to the
\* targets.
AfterResolver_NoCompile(depth) == IF depth = 1 THEN "find" ELSE "resolve"

\* Where a returning loadReferencedSchemas call continues: the outermost
\* call returns to validate, line 229 (ajv.compile), a nested one to the
\* walk of its caller.
AfterResolver(depth) == IF depth = 1 THEN "compile" ELSE "resolve"

\* The innermost loadReferencedSchemas call has walked its whole document.
ResolveReturn ==
  /\ UNCHANGED build
  /\ pc = "resolve"
  /\ Len(stack) > 0
  /\ Len(Last(stack).refs) = 0
  /\ stack' = Front(stack)
  /\ pc' = AfterResolver(Len(stack))
  /\ UNCHANGED <<variant, argv, fs, schemaCache, schema, ajvSchemas, ajvRefs,
                 compiled, files, idx, allValid, results, output, exitCode,
                 calls, reads, added, visited, refLog, targetReads, matched, evaluated, fatal>>

\* validate line 229: ajv.compile(schema).  The engine registers the root
\* under its $id (and throws when that identifier is taken); accepted says
\* whether it then accepts the linked schema.
Compile ==
  /\ UNCHANGED build
  /\ pc = "compile"
  /\ \E accepted \in BOOLEAN :
     LET rootId == NormalizeId(SchemaIdOf(schema))
         taken  == Len(rootId) > 0 /\ rootId \in ajvSchemas \cup ajvRefs
     IN IF taken \/ ~accepted
        THEN /\ Abort("compile")
             /\ UNCHANGED <<ajvRefs, compiled, files, idx>>
        ELSE /\ ajvRefs' = (IF Len(rootId) > 0 THEN ajvRefs \cup {rootId}
                            ELSE ajvRefs)
             /\ compiled' = TRUE
             /\ IF variant = "glob"
                THEN /\ pc' = "find"
                     /\ UNCHANGED <<files, idx>>
                ELSE /\ pc' = "validate"
                     /\ files' = <<argv.file>>
                     /\ idx' = 1
             /\ UNCHANGED <<exitCode, fatal>>
  /\ UNCHANGED <<variant, argv, fs, schemaCache, schema, ajvSchemas, stack,
                 allValid, results, output, calls, reads, added, visited,
                 refLog, targetReads, matched, evaluated>>

\* validate lines 232-242 (glob variant): expand the pattern; no match is
\* reported as success.
FindFiles ==
  /\ UNCHANGED build
  /\ pc = "find"
  /\ \E found \in GlobMatches :
     LET globbed == Glob(found, TRUE) IN
       /\ matched' = found
       /\ files' = FindFilesResult(globbed)
       /\ IF Len(files') = 0
          THEN /\ pc' = "exited"
               /\ exitCode' = ExitCodeOf(TRUE)
               /\ idx' = idx
          ELSE /\ pc' = "validate"
               /\ idx' = 1
               /\ exitCode' = exitCode
  /\ UNCHANGED <<variant, argv, fs, schemaCache, schema, ajvSchemas, ajvRefs,
                 stack, compiled, allValid, results, output, calls, reads,
                 added, visited, refLog, targetReads, evaluated, fatal>>

\* Mutant of ValidateFileOutcome: JSON.parse sits outside the try block.
ValidateFileOutcome_NoTry(content) ==
  IF content \in {"unreadable", "not_json"} THEN "throws" ELSE "returns"

\* Mutant of ValidateFileOutcome: a failed read is caught like a failed parse.
ValidateFileOutcome_CatchAll(content) == "returns"

\* validateFile lines 183-194: readFile is awaited outside the try block,
\* JSON.parse inside it, so only a failed read leaves validateFile as an
\* exception.
ValidateFileOutcome(content) ==
  IF content = "unreadable" THEN "throws" ELSE "returns"

\* validateFile line 196: validateFn(data) is reached only with parsed data.
ValidatorApplied(content) == content \in {"accepted", "rejected"}

\* Mutant of ValidateFileResult: every target that parses is reported valid.
ValidateFileResult_VerdictIgnored(file, content) ==
  [file |-> file,
   valid |-> content # "not_json",
   errors |-> IF content = "not_json" THEN "Invalid JSON" ELSE "none"]

\* validateFile lines 178-208 on a file with the given content.
ValidateFileResult(file, content) ==
  [file |-> file,
   valid |-> content = "accepted",
   errors |-> CASE content = "not_json" -> "Invalid JSON"
                [] content = "rejected" -> "diagnostics"
                [] OTHER -> "none"]

\* Mutant of PrintMarker: nothing is printed inside the loop.
PrintMarker_Deferred(printed, result) == printed

\* validate lines 247-252: the marker of one result.
PrintMarker(printed, result) ==
  Append(printed, [file |-> result.file, ok |-> result.valid])

\* Mutant of LoopNext: the loop is left at the first invalid result.
LoopNext_BreakOnInvalid(i, n, result) == IF result.valid THEN i + 1 ELSE n + 1

\* validate line 244: for (const file of files) goes on to the next file
\* whatever the result.
LoopNext(i, n, result) == i + 1

\* One iteration of validate's loop, lines 244-254 (the single-file
\* variant's lines 241-250): validate the next target and print its marker.
ValidateFile ==
  /\ UNCHANGED build
  /\ pc = "validate"
  /\ idx <= Len(files)
  /\ \E content \in TargetContents :
       /\ targetReads' = Append(targetReads, [file |-> files[idx],
                                              found |-> content])
       /\ IF ValidateFileOutcome(content) = "throws"
          THEN /\ Abort("target_read")
               /\ UNCHANGED <<idx, allValid, results, output, evaluated>>
          ELSE LET result == ValidateFileResult(files[idx], content)
               IN /\ evaluated' = (IF ValidatorApplied(content)
                                   THEN Append(evaluated, files[idx])
                                   ELSE evaluated)
                  /\ results' = Append(results, result)
                  /\ output' = PrintMarker(output, result)
                  /\ allValid' = (IF result.valid THEN allValid ELSE FALSE)
                  /\ idx' = LoopNext(idx, Len(files), result)
                  /\ UNCHANGED <<pc, exitCode, fatal>>
  /\ UNCHANGED <<variant, argv, fs, schemaCache, schema, ajvSchemas, ajvRefs,
                 stack, compiled, files, calls, reads, added, visited, refLog,
                 matched>>

\* validate returns and main exits with the result.
Finish ==
  /\ UNCHANGED build
  /\ pc = "validate"
  /\ idx > Len(files)
  /\ pc' = "exited"
  /\ exitCode' = ExitCodeOf(allValid)
  /\ UNCHANGED <<variant, argv, fs, schemaCache, schema, ajvSchemas, ajvRefs,
                 stack, compiled, files, idx, allValid, results, output,
                 calls, reads, added, visited, refLog, targetReads, matched, evaluated, fatal>>

Next ==
  \/ MainUsageError
  \/ LoadRoot
  \/ ResolveRef
  \/ ResolveReturn
  \/ Compile
  \/ FindFiles
  \/ ValidateFile
  \/ Finish

Spec == Init /\ [][Next]_vars


(***************************************************************************)
(* The Schema Loader on its own: any sequence of loadSchema calls in one   *)
(* process.                                                                *)
(***************************************************************************)
Identifiers ==
  { <<"format.json">>,
    <<"/", "s", "/", "format.json">>,
    UrlOf("format.json"),
    <<"http:", "/", "/", "h", "/", "format.json">>,
    <<"a", "/", "x.json">>,
    <<"/", "s", "/", "a", "/", "x.json">>,
    <<"https:", "/", "/", "h">>,
    UrlOf("common.json") \o <<"#", "/", "defs">>,
    <<"..", "/", "s", "/", "common.json">>,
    <<"/", "elsewhere", "/", "format.json">>,
    <<"https:", "/", "/">> }

LoaderInit ==
  /\ variant = "glob"
  /\ argv = [kind |-> "", file |-> <<>>]
  /\ fs \in LoaderDisks
  /\ pc = "loader"
  /\ build = NoBuild
  /\ Blank

\* loadSchema(uri), lines 58-83; a throw is caught by the caller.
LoaderCall ==
  /\ UNCHANGED build
  /\ pc = "loader"
  /\ Len(calls) < MaxCalls
  /\ \E uri \in Identifiers :
       LET r == LoadSchema(fs, schemaCache, uri)
       IN /\ calls' = Append(calls, CallEntry(r))
          /\ reads' = LogRead(r)
          /\ schemaCache' = r.cache
  /\ UNCHANGED <<variant, argv, fs, pc, schema, ajvSchemas, ajvRefs, stack,
                 compiled, files, idx, allValid, results, output, exitCode,
                 added, visited, refLog, targetReads, matched, evaluated, fatal>>

LoaderNext == LoaderCall

LoaderSpec == LoaderInit /\ [][LoaderNext]_vars

(***************************************************************************)
(* The build scripts: build.ts of the plugin and the skill package's build *)
(* script.  A path is a sequence of names; src is the set of sources that  *)
(* exist, dist the set of destination paths that exist, ops the file       *)
(* system operations and child processes of the run in order, done the     *)
(* build functions that returned.                                          *)
(***************************************************************************)
Scripts == {"plugin", "skill"}

\* Destination paths (build.ts lines 41-45; the skill script's SPEC_DEST and
\* SCHEMA_DEST)
DIST == <<"dist">>
SKILL_DEST(script) ==
  IF script = "plugin" THEN DIST \o <<"skills", "design-tokens">>
  ELSE <<"skills", "design-tokens">>
SPEC_DEST(script) == SKILL_DEST(script) \o <<"spec">>
SCHEMA_DEST(script) ==
  IF script = "plugin" THEN SKILL_DEST(script) \o <<"schemas">>
  ELSE <<"schemas">>
PLUGIN_DEST == DIST \o <<".claude-plugin">>

\* SPEC_DIRS, cut down to the first files of the directory "format".
SPEC_FILES ==
  SubSeq(<<"aliases.md", "composite-types.md", "design-token.md",
           "file-format.md", "groups.md", "terminology.md", "types.md">>,
         1, MaxSpecFiles)

Range(seq) == {seq[i] : i \in 1..Len(seq)}

\* Mutant of BuildSteps: the validation script is compiled right after the
\* destination is cleaned.
BuildSteps_CompileFirst(script) ==
  IF script = "plugin"
  THEN <<"cleanDist", "buildValidationScript", "copySpecFiles", "copySchemas",
         "copySkillAssets", "copyLicenseNotices">>
  ELSE <<"copySpecFiles", "copySchemas">>

\* The calls of build() after the submodule check, build.ts lines 174-179
\* (the skill script's build: copySpecFiles, copySchemas).
BuildSteps(script) ==
  IF script = "plugin"
  THEN <<"cleanDist", "copySpecFiles", "copySchemas", "copySkillAssets",
         "copyLicenseNotices", "buildValidationScript">>
  ELSE <<"copySpecFiles", "copySchemas">>

\* An uncaught exception ends the script with exit code 1.
UncaughtExitCode == 1

IsUnder(path, dir) ==
  Len(path) >= Len(dir) /\ SubSeq(path, 1, Len(dir)) = dir

Prefixes(path) == {SubSeq(path, 1, n) : n \in 1..Len(path)}

Op(b, op, target) ==
  [b EXCEPT !.ops = Append(@, [op |-> op, target |-> target])]

\* if (existsSync(dir)) rmSync(dir, { recursive: true })
RmIfExists(b, dir) ==
  IF dir \in b.dist
  THEN [Op(b, "rm", dir) EXCEPT !.dist = {q \in @ : ~IsUnder(q, dir)}]
  ELSE b

\* mkdirSync(dir, { recursive: true })
Mkdir(b, dir) ==
  [Op(b, "mkdir", dir) EXCEPT !.dist = @ \cup Prefixes(dir)]

\* cpSync(src, dest) of a file
CpFile(b, dest) == [Op(b, "cp", dest) EXCEPT !.dist = @ \cup {dest}]

\* cpSync(src, dest, { recursive: true }) of a directory
CpDir(b, dest) ==
  [Op(b, "cp", dest) EXCEPT !.dist = @ \cup {dest, dest \o <<"copied">>}]

\* A build function returned.
Returned(b, name) ==
  [b EXCEPT !.done = Append(@, name), !.i = @ + 1]

\* An exception left build(): the script ends.
Thrown(b) == [b EXCEPT !.pc = "exited", !.exitCode = UncaughtExitCode]

RECURSIVE CopyEachSpecFile(_, _, _)
\* copySpecFiles lines 105-114: a file that is missing is skipped.
CopyEachSpecFile(b, destDir, names) ==
  IF Len(names) = 0 THEN b
  ELSE CopyEachSpecFile(IF Head(names) \in b.src
                        THEN CpFile(b, destDir \o <<Head(names)>>)
                        ELSE b,
                        destDir, Tail(names))

\* The sources that may exist: the submodule, its schema directory and spec
\* files, and the plugin's own assets.
BuildSources ==
  { src \in SUBSET ({"vendor", "schemas", ".claude-plugin", "SKILL.md",
                     "LICENSE", "THIRD_PARTY_NOTICES.md"}
                    \cup Range(SPEC_FILES)) :
      "vendor" \notin src => src \cap ({"schemas"} \cup Range(SPEC_FILES)) = {} }

\* What an earlier build may have left behind.
StaleDist(script) ==
  IF script = "plugin"
  THEN Prefixes(DIST \o <<"stale">>)
  ELSE Prefixes(SPEC_DEST(script) \o <<"stale">>)
       \cup Prefixes(SCHEMA_DEST(script) \o <<"stale">>)

BuildInit ==
  /\ variant = "glob"
  /\ argv = [kind |-> "", file |-> <<>>]
  /\ fs \in {Disk(Missing, Missing, Missing, Missing)}
  /\ pc = "build"
  /\ Blank
  /\ \E script \in Scripts, src \in BuildSources :
     \E dist0 \in {{}, StaleDist(script)} :
       build = [pc |-> "check", script |-> script, src |-> src,
                dist0 |-> dist0, dist |-> dist0, ops |-> <<>>, done |-> <<>>,
                i |-> 0, exitCode |-> -1]

NextBuildStep ==
  IF build.pc = "steps" /\ build.i <= Len(BuildSteps(build.script))
  THEN BuildSteps(build.script)[build.i] ELSE "none"

ValidatorUntouched ==
  UNCHANGED <<variant, argv, fs, pc, schemaCache, schema, ajvSchemas, ajvRefs,
              stack, compiled, files, idx, allValid, results, output,
              exitCode, calls, reads, added, visited, refLog, targetReads,
              matched, evaluated, fatal>>

\* build lines 167-172: the submodule check.
BuildCheck ==
  /\ build.pc = "check"
  /\ build' = (IF "vendor" \notin build.src
               THEN [build EXCEPT !.pc = "exited", !.exitCode = 1]
               ELSE [build EXCEPT !.pc = "steps", !.i = 1])
  /\ ValidatorUntouched

\* cleanDist, build.ts lines 86-92
CleanDist ==
  /\ NextBuildStep = "cleanDist"
  /\ build' = Returned(Mkdir(RmIfExists(build, DIST), DIST), "cleanDist")
  /\ ValidatorUntouched

\* copySpecFiles, build.ts lines 94-116; the skill script's copySpecFiles
\* removes SPEC_DEST first.
CopySpecFiles ==
  /\ NextBuildStep = "copySpecFiles"
  /\ LET dest    == SPEC_DEST(build.script)
         destDir == dest \o <<"format">>
         b0 == IF build.script = "skill" THEN RmIfExists(build, dest)
               ELSE build
         b1 == Mkdir(Mkdir(b0, dest), destDir)
     IN build' = Returned(CopyEachSpecFile(b1, destDir, SPEC_FILES),
                          "copySpecFiles")
  /\ ValidatorUntouched

\* copySchemas, build.ts lines 118-123; the skill script's copySchemas
\* removes SCHEMA_DEST first.  cpSync throws when SCHEMA_SOURCE is missing.
CopySchemas ==
  /\ NextBuildStep = "copySchemas"
  /\ LET dest == SCHEMA_DEST(build.script)
         b0 == IF build.script = "skill" THEN RmIfExists(build, dest)
               ELSE build
         b1 == Mkdir(b0, dest)
     IN build' = (IF "schemas" \in build.src
                  THEN Returned(CpDir(b1, dest), "copySchemas")
                  ELSE Thrown(b1))
  /\ ValidatorUntouched

\* copySkillAssets, build.ts lines 125-140.  cpSync throws when
\* PLUGIN_SOURCE is missing.
CopySkillAssets ==
  /\ NextBuildStep = "copySkillAssets"
  /\ LET b1 == Mkdir(build, PLUGIN_DEST)
         b2 == CpDir(b1, PLUGIN_DEST)
         b3 == IF "SKILL.md" \in build.src
               THEN CpFile(b2, SKILL_DEST(build.script) \o <<"SKILL.md">>)
               ELSE b2
     IN build' = (IF ".claude-plugin" \in build.src
                  THEN Returned(b3, "copySkillAssets")
                  ELSE Thrown(b1))
  /\ ValidatorUntouched

\* copyLicenseNotices, build.ts lines 148-162
CopyLicenseNotices ==
  /\ NextBuildStep = "copyLicenseNotices"
  /\ LET b1 == IF "LICENSE" \in build.src
               THEN CpFile(build, SKILL_DEST(build.script) \o <<"LICENSE">>)
               ELSE build
         b2 == IF "THIRD_PARTY_NOTICES.md" \in build.src
               THEN CpFile(b1, SKILL_DEST(build.script)
                               \o <<"THIRD_PARTY_NOTICES.md">>)
               ELSE b1
     IN build' = Returned(b2, "copyLicenseNotices")
  /\ ValidatorUntouched

\* buildValidationScript, build.ts lines 142-146: execSync throws when the
\* compile fails.
BuildValidationScript ==
  /\ NextBuildStep = "buildValidationScript"
  /\ \E ok \in BOOLEAN :
       LET b1 == Op(build, "exec", <<"vite">>)
       IN build' = (IF ok
                    THEN Returned([b1 EXCEPT !.dist =
                                     @ \cup {SKILL_DEST(build.script)
                                             \o <<"scripts", "validate.js">>}],
                                  "buildValidationScript")
                    ELSE Thrown(b1))
  /\ ValidatorUntouched

\* build() returned: the script ends with exit code 0.
BuildDone ==
  /\ build.pc = "steps"
  /\ build.i > Len(BuildSteps(build.script))
  /\ build' = [build EXCEPT !.pc = "exited", !.exitCode = 0]
  /\ ValidatorUntouched

BuildNext ==
  \/ BuildCheck
  \/ CleanDist
  \/ CopySpecFiles
  \/ CopySchemas
  \/ CopySkillAssets
  \/ CopyLicenseNotices
  \/ BuildValidationScript
  \/ BuildDone

BuildSpec == BuildInit /\ [][BuildNext]_vars

(***************************************************************************)
(* Claims.                                                                 *)
(***************************************************************************)

\* C1: for any sequence of loadSchema calls, once a call has loaded (or
\* found cached) a path, every later call that resolves to that path is a
\* cache hit and performs no disk read, whatever JSON value the file holds.
C1_SecondCallIsCacheHit ==
  \A i, j \in 1..Len(calls) :
    (/\ i < j
     /\ calls[i].outcome \in {"loaded", "hit"}
     /\ calls[j].path = calls[i].path)
    => (calls[j].outcome = "hit" /\ calls[j].read = <<>>)

\* C6: loadSchema resolves a remote identifier to the file named by the
\* last segment of the URL path inside the schema directory, an identifier
\* starting with "/" to itself, and anything else to the identifier joined
\* onto the schema directory; that path is the file read and the cache key.
C6_ResolutionRule ==
  \A i \in 1..Len(calls) :
    LET c == calls[i] IN
    c.outcome # "url_error" =>
      /\ c.path =
           (IF c.uri[1] \in {"https:", "http:"} /\ SubSeq(c.uri, 2, 3) = <<"/", "/">>
            THEN Join(SCHEMA_DIR, Last(SplitOn(UrlPathname(c.uri), "/")))
            ELSE IF c.uri[1] = "/" THEN c.uri
            ELSE Join(SCHEMA_DIR, c.uri))
      /\ c.read # <<>> => c.read = c.path
      /\ c.outcome = "loaded" => (c.key = c.path /\ c.path \in DOMAIN schemaCache)
      /\ c.outcome = "hit" => c.path \in DOMAIN schemaCache

\* C6 witness: a remote, an absolute and a relative identifier have each
\* been loaded from disk.
C6_Witness ==
  /\ \E i \in 1..Len(calls) :
       IsRemote(calls[i].uri) /\ calls[i].outcome = "loaded"
  /\ \E i \in 1..Len(calls) :
       calls[i].uri[1] = "/" /\ calls[i].outcome = "loaded"
  /\ \E i \in 1..Len(calls) :
       ~IsRemote(calls[i].uri) /\ calls[i].uri[1] # "/"
       /\ calls[i].outcome = "loaded"


NoDuplicates(seq) == \A i, j \in 1..Len(seq) : i # j => seq[i] # seq[j]

LoadedRefs == {i \in 1..Len(refLog) : refLog[i].how = "load"}

\* The work the resolver still has: the schema files not yet loaded, and
\* the refs and returns pending in the active calls.
Unloaded == Cardinality(DOMAIN fs \ DOMAIN schemaCache)

RECURSIVE PendingWork(_)
PendingWork(frames) ==
  IF Len(frames) = 0 THEN 0
  ELSE 1 + Len(Head(frames).refs) + PendingWork(Tail(frames))

\* C2: whatever graph the external refs of the schema files form, cycles
\* and self-references included, the resolver returns or fails and never
\* recurses forever: every resolver step either ends the run or strictly
\* decreases (files not yet loaded, pending work) in lexicographic order,
\* there is always a call to continue, and the recursion never needs more
\* nesting than there are schema files.
C2_ResolverTerminates ==
  /\ [](pc = "resolve" =>
         /\ Len(stack) >= 1
         /\ NoDuplicates([k \in 1..Len(stack) |-> stack[k].file])
         /\ Unloaded > 0 => Len(stack) < MaxDepth)
  /\ [][pc = "resolve" =>
          \/ pc' = "exited"
          \/ Unloaded' < Unloaded
          \/ Unloaded' = Unloaded /\ PendingWork(stack') < PendingWork(stack)]_vars

\* C2 witness: a run has ended normally after the resolver met a reference
\* back to a schema whose walk was still in progress (a cycle).
C2_Witness ==
  /\ pc = "exited"
  /\ fatal = "none"
  /\ \E i \in 1..Len(refLog) : refLog[i].how = "cached" /\ refLog[i].active

\* C3: in one run each resolved schema path is loaded at most once, passed
\* to addSchema at most once and walked at most once.
C3_AtMostOnce ==
  /\ NoDuplicates([i \in 1..Len(calls) |-> calls[i].path])
  /\ NoDuplicates(reads)
  /\ NoDuplicates([i \in 1..Len(added) |-> added[i].file])
  /\ NoDuplicates(visited)

\* C3 witness: both schemas of a cyclic pair were registered, and a second
\* reference to an already loaded path was met, in a run that ended normally.
C3_Witness ==
  /\ pc = "exited"
  /\ fatal = "none"
  /\ Len(added) >= 2
  /\ \E i, j \in 1..Len(refLog) :
       /\ i < j
       /\ refLog[i].how = "load"
       /\ refLog[j].how = "cached"
       /\ refLog[j].path = refLog[i].path
       /\ refLog[j].active
       /\ refLog[j].file # refLog[i].file

\* The external refs of the schema stored at path, resolved against the
\* directory of path.
RefTargets(path) ==
  IF path \in DOMAIN fs /\ fs[path].parses
  THEN LET refs == WalkRefs(fs[path].json)
       IN {Join(Dirname(path), refs[i]) :
             i \in {n \in 1..Len(refs) : ~StartsWith(refs[n], <<"#">>)}}
  ELSE {}

RECURSIVE ReachableFrom(_)
ReachableFrom(paths) ==
  LET more == (paths \cup UNION {RefTargets(p) : p \in paths}) \cap DOMAIN fs
  IN IF more = paths THEN paths ELSE ReachableFrom(more)

\* The schema files reachable from the root by one or more external refs.
ReachableSchemas ==
  ReachableFrom(RefTargets(SCHEMA_PATHS(argv.kind)) \cap DOMAIN fs)

\* C4: when the resolver has returned normally, every schema file reachable
\* from the root through external refs has been registered with the engine,
\* before the root is compiled.
C4_AllReachableRegistered ==
  pc = "compile" =>
    \A p \in ReachableSchemas : \E i \in 1..Len(added) : added[i].file = p

\* C5: a $ref whose value starts with "#" causes no load, no disk read and
\* no registration: every load, read and registration of the resolver
\* belongs to a reference that does not start with "#".
C5_InternalRefsNeverLoad ==
  /\ \A i \in 1..Len(refLog) :
       StartsWith(refLog[i].ref, <<"#">>) =>
         (refLog[i].how = "internal" /\ refLog[i].path = <<>>)
  /\ Len(calls) <= 1 + Cardinality(LoadedRefs)
  /\ Len(reads) <= 1 + Cardinality(LoadedRefs)
  /\ Len(added) <= Cardinality(LoadedRefs)

\* C5 witness: an internal reference nested in an array was met and the run
\* ended normally.
C5_Witness ==
  /\ pc = "exited"
  /\ fatal = "none"
  /\ \E i \in 1..Len(refLog) :
       refLog[i].ref = <<"#", "/", "defs", "/", "z">> /\ refLog[i].how = "internal"

\* C7: a remote URL met as an external $ref is resolved to the file of the
\* same name in the schema directory, as it is when given to loadSchema.
C7_RemoteRefsMapToSchemaDir ==
  \A i \in 1..Len(refLog) :
    (IsRemote(refLog[i].ref) /\ refLog[i].how # "internal") =>
      refLog[i].path =
        Join(SCHEMA_DIR, Last(SplitOn(UrlPathname(refLog[i].ref), "/")))

\* C8: an external $ref found in schema file F is resolved against the
\* directory that contains F, at every nesting level.
C8_RefsResolveAgainstContainingFile ==
  \A i \in 1..Len(refLog) :
    refLog[i].how # "internal" =>
      refLog[i].path = Join(Dirname(refLog[i].file), refLog[i].ref)

\* C8 witness: a schema in a subdirectory had a relative ref loaded from
\* its own directory.
C8_Witness ==
  \E i \in 1..Len(refLog) :
    /\ refLog[i].how = "load"
    /\ refLog[i].file = <<"/", "s", "/", "a", "/", "x.json">>
    /\ refLog[i].ref = <<"common.json">>
    /\ refLog[i].path = <<"/", "s", "/", "a", "/", "common.json">>
    /\ refLog[i].path \in DOMAIN schemaCache

\* C9: the exit code is 0 exactly when no usage or fatal error occurred and
\* every target was reported valid, and 1 otherwise; the overall boolean is
\* the conjunction of the per-target validity flags.
C9_ExitCode ==
  /\ allValid = (\A i \in 1..Len(results) : results[i].valid)
  /\ pc = "exited" =>
       /\ exitCode \in {0, 1}
       /\ exitCode = 0 <=>
            (/\ fatal = "none"
             /\ Len(results) = Len(files)
             /\ \A i \in 1..Len(results) : results[i].valid)
  /\ pc # "exited" => exitCode = -1

\* C9 witness: a batch with a valid and an invalid target exited with 1.
C9_Witness ==
  /\ pc = "exited"
  /\ exitCode = 1
  /\ fatal = "none"
  /\ Len(results) = 2
  /\ results[1].valid
  /\ ~results[2].valid

SchemaSideFailure ==
  \/ \E i \in 1..Len(calls) :
       calls[i].outcome \in {"url_error", "read_error", "parse_error"}
  \/ fatal \in {"schema_load", "type_error", "engine_error", "already_exists",
                "compile"}

\* C10: when a schema file cannot be read or parsed, or the engine rejects
\* the schema, the run has aborted with exit code 1 and no target was read
\* or evaluated; targets are only read once the schema is compiled.
C10_SchemaFailureAborts ==
  /\ SchemaSideFailure =>
       /\ pc = "exited"
       /\ exitCode = 1
       /\ targetReads = <<>>
       /\ results = <<>>
       /\ output = <<>>
  /\ targetReads # <<>> => (compiled /\ stack = <<>>)

\* C10 witness: a schema referenced from a referenced schema was missing.
C10_Witness ==
  /\ pc = "exited"
  /\ fatal = "schema_load"
  /\ Len(calls) >= 3
  /\ calls[Len(calls)].outcome = "read_error"
  /\ Len(added) >= 1

\* C11: a target that is not valid JSON gets a result with valid = false and
\* the JSON-syntax diagnostic; the compiled validator is never applied to it
\* and validateFile does not throw for it (the run is not aborted by it).
C11_ParseFailureIsAResult ==
  \A i \in 1..Len(targetReads) :
    targetReads[i].found = "not_json" =>
      /\ i <= Len(results)
      /\ results[i].file = targetReads[i].file
      /\ ~results[i].valid
      /\ results[i].errors = "Invalid JSON"
      /\ \A j \in 1..Len(evaluated) : evaluated[j] # targetReads[i].file
      /\ fatal # "none" => i < Len(targetReads)

\* C11 witness: a target that was not JSON has its result, and the run went
\* on to its normal end.
C11_Witness ==
  /\ pc = "exited"
  /\ fatal = "none"
  /\ Len(targetReads) >= 1
  /\ targetReads[1].found = "not_json"
  /\ Len(results) >= 1
  /\ ~results[1].valid

KindRecognized ==
  \/ variant = "glob" /\ argv.kind \in {"tokens", "resolvers"}
  \/ variant = "single" /\ argv.kind \in {"tokens", "resolver"}

\* C13: with a missing or unrecognized kind argument the process prints the
\* usage text and exits with code 1 without any file access: no schema is
\* loaded, no glob is expanded and no target is read.
C13_UsageErrorTouchesNothing ==
  (pc # "start" /\ ~KindRecognized) =>
    /\ pc = "exited"
    /\ fatal = "usage"
    /\ exitCode = 1
    /\ calls = <<>>
    /\ reads = <<>>
    /\ schemaCache = <<>>
    /\ ~compiled
    /\ matched = <<>>
    /\ files = <<>>
    /\ targetReads = <<>>
    /\ results = <<>>

\* C13 witness: the run with the kind "bogus" has ended.
C13_Witness ==
  /\ pc = "exited"
  /\ argv.kind = "bogus"
  /\ fatal = "usage"
  /\ exitCode = 1

\* a comes before b in the order of Array.prototype.sort without a
\* comparator: by UTF-16 code units, a proper prefix first.
SortsBefore(a, b) ==
  \E k \in 1..(Len(b)) :
    /\ \A m \in 1..(k - 1) : m <= Len(a) /\ a[m] = b[m]
    /\ \/ k = Len(a) + 1
       \/ k <= Len(a) /\ a[k] < b[k]

\* C14: in discovery mode the targets are exactly the matching files (no
\* directory), in strictly ascending lexicographic order whatever order the
\* expansion returned them in, and they are read and get their results in
\* that order; so the sequence of results depends only on the set of
\* matching files.
C14_SortedDiscovery ==
  variant = "glob" =>
    /\ \A i, j \in 1..Len(files) : i < j => SortsBefore(files[i], files[j])
    /\ {files[i] : i \in 1..Len(files)} =
         {matched[i] : i \in 1..Len(matched)} \ DirNames
    /\ \A i \in 1..Len(targetReads) : targetReads[i].file = files[i]
    /\ \A i \in 1..Len(results) : results[i].file = files[i]

\* C14 witness: the expansion returned two files in descending order with a
\* directory between them, and both files have their results.
C14_Witness ==
  /\ variant = "glob"
  /\ Len(matched) = 3
  /\ matched[2] \in DirNames
  /\ Len(files) = 2
  /\ matched[1] = files[2]
  /\ matched[3] = files[1]
  /\ Len(results) = 2

\* C15: targets are processed one at a time: when the read of a target
\* begins, every earlier target has been read, parsed, evaluated and has had
\* its marker printed; markers are printed per file, in the order of the
\* reads, never held back to the end.
C15_OneTargetAtATime ==
  /\ Len(output) = Len(results)
  /\ Len(targetReads) \in {Len(output), Len(output) + 1}
  /\ Len(targetReads) > Len(output) => fatal = "target_read"
  /\ \A i \in 1..Len(output) :
       /\ i <= Len(targetReads)
       /\ output[i].file = targetReads[i].file
       /\ output[i].ok = (targetReads[i].found = "accepted")
  /\ pc = "validate" => idx = Len(output) + 1

\* C15 witness: the first target's marker is printed and the second target
\* has not been read yet.
C15_Witness ==
  /\ pc = "validate"
  /\ Len(files) = 2
  /\ Len(output) = 1
  /\ Len(targetReads) = 1
  /\ idx = 2

\* C16: a newly loaded schema is registered under its own $id when it
\* declares one, and under the literal $ref only when it declares none.
C16_RegisteredUnderOwnId ==
  \A i \in 1..Len(added) :
    added[i].key = (IF added[i].id # <<>> THEN added[i].id ELSE added[i].ref)

\* C17: the engine never refuses a registration as a duplicate: no run ends
\* in addSchema's "already exists" error.
C17_NoDuplicateRegistration == fatal # "already_exists"

\* A combined reference: "#" occurs in it, but not at its start.
IsCombinedRef(ref) ==
  /\ \E k \in 1..Len(ref) : ref[k] = "#"
  /\ ref[1] # "#"

\* C18: for a combined ref such as other.json#/defs/x the single-file
\* variant attempts no load, and the glob variant treats it as an external
\* schema at join(baseDir, ref): it loads that path unless it is cached.
\* Both variants skip a ref that starts with "#".
C18_VariantsClassifyDifferently ==
  \A i \in 1..Len(refLog) :
    /\ (IsCombinedRef(refLog[i].ref) /\ variant = "single") =>
         (refLog[i].how = "internal" /\ refLog[i].path = <<>>)
    /\ (IsCombinedRef(refLog[i].ref) /\ variant = "glob") =>
         /\ refLog[i].how \in {"load", "cached"}
         /\ refLog[i].path = Join(refLog[i].baseDir, refLog[i].ref)
         /\ refLog[i].how = "load" =>
              \E c \in 1..Len(calls) : calls[c].uri = refLog[i].path
    /\ (Len(refLog[i].ref) > 0 /\ refLog[i].ref[1] = "#") =>
         refLog[i].how = "internal"

\* C18 witness: the glob variant went to disk for a combined ref.
C18_Witness ==
  /\ variant = "glob"
  /\ \E i \in 1..Len(refLog) :
       /\ IsCombinedRef(refLog[i].ref)
       /\ refLog[i].how = "load"
       /\ \E c \in 1..Len(calls) :
            calls[c].uri = refLog[i].path /\ calls[c].read # <<>>

\* C19: a target that cannot be read ends the run: it gets no result, the
\* process exits with code 1, no later target is read or evaluated and the
\* read is not tried again.
C19_UnreadableTargetIsTerminal ==
  \A i \in 1..Len(targetReads) :
    targetReads[i].found = "unreadable" =>
      /\ i = Len(targetReads)
      /\ pc = "exited"
      /\ fatal = "target_read"
      /\ exitCode = 1
      /\ Len(results) = i - 1
      /\ Len(output) = i - 1
      /\ \A j \in 1..Len(results) : results[j].file # targetReads[i].file
      /\ \A j \in 1..(i - 1) : targetReads[j].file # targetReads[i].file

\* C19 witness: the first of two discovered targets could not be read; the
\* second was never read.
C19_Witness ==
  /\ pc = "exited"
  /\ Len(files) = 2
  /\ Len(targetReads) = 1
  /\ targetReads[1].found = "unreadable"
  /\ results = <<>>
  /\ exitCode = 1

RECURSIVE AllRefs(_)
RECURSIVE AllRefsOfItems(_)
\* Every string value of a key "$ref" anywhere in a document, with no
\* subtree left out.
AllRefs(value) ==
  IF value.t \in {"arr", "obj"}
  THEN (IF HasStringRef(value) THEN {Get(value, "$ref").s} ELSE {})
       \cup AllRefsOfItems(value.v)
  ELSE {}

AllRefsOfItems(items) ==
  IF Len(items) = 0 THEN {}
  ELSE AllRefs(Head(items)) \cup AllRefsOfItems(Tail(items))

\* C20: when the resolver has returned normally, every string-valued
\* external $ref at any depth of every document it walked has been met by
\* the walk, the subtree under a key named "$ref" included.
C20_WalkVisitsEverything ==
  pc = "compile" =>
    \A n \in 1..Len(visited) :
      \A ref \in AllRefs(fs[visited[n]].json) :
        ~StartsWith(ref, <<"#">>) =>
          \E i \in 1..Len(refLog) :
            refLog[i].file = visited[n] /\ refLog[i].ref = ref

\* The last loadSchema call failed.
LastCallFailed(log) ==
  log[Len(log)].outcome \in {"url_error", "read_error", "parse_error"}

\* C21: a loadSchema call that fails (the file is missing or unreadable, its
\* content is not JSON, or the URL is malformed) leaves the Schema Cache as it
\* was; a path enters the cache only in a call that read and parsed its file,
\* and is mapped to the parsed content.
C21_FailedLoadLeavesCache ==
  /\ [](\A p \in DOMAIN schemaCache :
          /\ p \in DOMAIN fs
          /\ fs[p].parses
          /\ schemaCache[p] = fs[p].json
          /\ \E i \in 1..Len(calls) :
               calls[i].outcome = "loaded" /\ calls[i].key = p)
  /\ [][(Len(calls') = Len(calls) + 1 /\ LastCallFailed(calls'))
          => schemaCache' = schemaCache]_vars
  /\ [][(Len(calls') = Len(calls) + 1 /\ schemaCache' # schemaCache)
          => /\ calls'[Len(calls')].outcome = "loaded"
             /\ DOMAIN schemaCache' =
                  DOMAIN schemaCache \cup {calls'[Len(calls')].key}]_vars

\* C21 witness: after a successful load, a file that is not JSON and a
\* missing file were asked for; the cache holds the first path only.
C21_Witness ==
  /\ pc = "loader"
  /\ Len(calls) = 3
  /\ calls[1].outcome = "loaded"
  /\ calls[2].outcome = "parse_error"
  /\ calls[3].outcome = "read_error"
  /\ DOMAIN schemaCache = {calls[1].key}

\* C22: the Schema Cache only grows: no step removes an entry or changes
\* the document a path is mapped to, no path is stored twice, and reading
\* and validating targets leaves the cache unchanged.
C22_CacheOnlyGrows ==
  /\ [][\A p \in DOMAIN schemaCache :
          p \in DOMAIN schemaCache' /\ schemaCache'[p] = schemaCache[p]]_vars
  /\ [][targetReads' # targetReads => schemaCache' = schemaCache]_vars
  /\ [](\A i, j \in 1..Len(calls) :
          (i < j /\ calls[i].outcome = "loaded" /\ calls[j].outcome = "loaded")
            => calls[i].key # calls[j].key)

\* C22 witness: targets were read with four schemas in the cache.
C22_Witness ==
  /\ Len(targetReads) >= 2
  /\ Cardinality(DOMAIN schemaCache) >= 4

\* The arguments each script runs with.
ArgsAccepted ==
  \/ variant = "glob" /\ argv.kind \in {"tokens", "resolvers"}
  \/ /\ variant = "single"
     /\ argv.kind \in {"tokens", "resolver"}
     /\ argv.file # <<>>

\* C23: the glob variant runs with the kinds tokens and resolvers only and
\* ignores a file argument; the single-file variant runs with the kinds
\* tokens and resolver only and needs a file argument; every other
\* invocation is a usage error with exit code 1, and no accepted one is.
C23_AcceptedKindsExact ==
  pc # "start" =>
    /\ ~ArgsAccepted => (pc = "exited" /\ fatal = "usage" /\ exitCode = 1)
    /\ ArgsAccepted => (fatal # "usage" /\ Len(calls) >= 1)
    /\ variant = "glob" =>
         \A i \in 1..Len(files) : \E k \in 1..Len(matched) : files[i] = matched[k]
    /\ variant = "single" => \A i \in 1..Len(files) : files[i] = argv.file

\* C23 witness: the single-file script was run with a valid kind and no file.
C23_Witness ==
  /\ variant = "single"
  /\ argv.kind = "tokens"
  /\ argv.file = <<>>
  /\ pc = "exited"
  /\ fatal = "usage"
  /\ exitCode = 1

\* The steps of validate in the order of its statements.
PhaseRank(p) ==
  CASE p = "start" -> 0
    [] p = "resolve" -> 1
    [] p = "compile" -> 2
    [] p = "find" -> 3
    [] p = "validate" -> 4
    [] OTHER -> 5

\* C24: a run goes through its steps in one order and never back: the root
\* schema is loaded first and once, the resolver runs, the root is compiled
\* once, then targets are read; targets are only read with the compiled
\* validator in hand, and once the root is compiled no schema is loaded,
\* read, cached or registered any more.
C24_FixedOrder ==
  /\ [][PhaseRank(pc') >= PhaseRank(pc)]_vars
  /\ [][(pc \in {"start", "compile", "find"}) => (pc' # pc)]_vars
  /\ [][compiled' # compiled => (pc = "compile" /\ compiled')]_vars
  /\ [][compiled =>
          UNCHANGED <<compiled, calls, reads, added, ajvSchemas, ajvRefs,
                      schemaCache, schema, stack>>]_vars
  /\ [](pc \in {"resolve", "compile", "find", "validate"} =>
          /\ Len(calls) >= 1
          /\ calls[1].uri = SCHEMA_PATHS(argv.kind)
          /\ calls[1].outcome = "loaded"
          /\ \A i \in 2..Len(calls) : calls[i].uri # calls[1].uri)
  /\ [](pc \in {"start", "resolve", "compile"} =>
          (~compiled /\ matched = <<>> /\ targetReads = <<>>))
  /\ [](pc \in {"find", "validate"} => (compiled /\ stack = <<>>))
  /\ [](targetReads # <<>> => compiled)
  /\ [](pc = "start" => (calls = <<>> /\ added = <<>> /\ ajvSchemas = {}))

\* C24 witness: a run that loaded and registered three referenced schemas,
\* compiled, and evaluated two targets has ended.
C24_Witness ==
  /\ pc = "exited"
  /\ fatal = "none"
  /\ compiled
  /\ Len(added) >= 3
  /\ Len(evaluated) = 2

\* C26: in the glob variant a pattern that matches no file ends the run with
\* exit code 0, and only after the root schema was loaded, its references
\* resolved and the schema compiled; a failure on the schema side ends the
\* run with exit code 1 before the pattern is ever expanded.
C26_NoTargetsIsSuccess ==
  /\ (variant = "glob" /\ compiled /\ pc = "exited" /\ files = <<>>) =>
       /\ exitCode = 0
       /\ fatal = "none"
       /\ Len(calls) >= 1
       /\ calls[1].outcome = "loaded"
       /\ stack = <<>>
       /\ targetReads = <<>>
  /\ (variant = "glob" /\ pc = "exited" /\ exitCode = 0) => compiled
  /\ (variant = "glob" /\ pc = "exited" /\ ~compiled) =>
       (exitCode = 1 /\ matched = <<>> /\ files = <<>>)

\* C26 witness: the pattern matched a directory only, after the schema and
\* two referenced schemas were loaded and compiled.
C26_Witness ==
  /\ variant = "glob"
  /\ pc = "exited"
  /\ compiled
  /\ Len(matched) = 1
  /\ files = <<>>
  /\ Len(added) >= 2
  /\ exitCode = 0

\* C27: every result of validateFile carries the path that was passed in;
\* for a target that parses, valid is the validator's verdict; a valid
\* result has no errors, an invalid one always has a diagnostic.
C27_ResultsWellFormed ==
  \A i \in 1..Len(results) :
    /\ i <= Len(targetReads)
    /\ results[i].file = targetReads[i].file
    /\ results[i].file = files[i]
    /\ targetReads[i].found = "accepted" => results[i].valid
    /\ targetReads[i].found = "rejected" => ~results[i].valid
    /\ results[i].valid => results[i].errors = "none"
    /\ ~results[i].valid => results[i].errors \in {"Invalid JSON", "diagnostics"}
    /\ results[i].errors = "diagnostics" <=> targetReads[i].found = "rejected"

\* C27 witness: a rejected target and an accepted target have their results.
C27_Witness ==
  /\ Len(results) = 2
  /\ targetReads[1].found = "accepted"
  /\ targetReads[2].found = "rejected"
  /\ results[1].errors = "none"
  /\ results[2].errors = "diagnostics"

\* C28: every schema document the resolver is traversing is a key of the
\* Schema Cache; the path the resolver tests with schemaCache.has and hands
\* to loadSchema is the key loadSchema stores the document under; so a $ref
\* that resolves to the file of a call still on the stack is always skipped
\* as cached.
C28_TraversedSchemasAreCached ==
  /\ \A k \in 1..Len(stack) : stack[k].file \in DOMAIN schemaCache
  /\ \A i \in 1..Len(calls) :
       calls[i].outcome = "loaded" => calls[i].key = calls[i].uri
  /\ \A i \in 1..Len(refLog) :
       /\ refLog[i].how = "load" =>
            \E c \in 1..Len(calls) : calls[c].uri = refLog[i].path
       /\ refLog[i].how = "cached" => refLog[i].path \in DOMAIN schemaCache
       /\ refLog[i].active => refLog[i].how = "cached"

\* C28 witness: two calls deep, a $ref that leads back to the root was
\* skipped.
C28_Witness ==
  /\ pc = "resolve"
  /\ Len(stack) >= 2
  /\ \E i \in 1..Len(refLog) :
       /\ refLog[i].active
       /\ refLog[i].how = "cached"
       /\ refLog[i].path = stack[1].file
       /\ refLog[i].file # stack[1].file

\* C25: the build script looks for the submodule before anything else: when
\* it is absent the script exits with code 1 and no destination path was
\* removed, created or written; when it is present, build.ts first cleans
\* the destination (nothing stale survives) and starts the compile of the
\* validation script only after every copy step has returned; the skill
\* package's script, which has no compile step, starts by cleaning its spec
\* destination.
C25_SubmoduleCheckedFirst ==
  build.pc \notin {"idle", "check"} =>
    /\ "vendor" \notin build.src =>
         /\ build.pc = "exited"
         /\ build.exitCode = 1
         /\ build.ops = <<>>
         /\ build.done = <<>>
         /\ build.dist = build.dist0
    /\ build.ops # <<>> => "vendor" \in build.src
    /\ (build.script = "plugin" /\ build.ops # <<>>) =>
         /\ build.ops[1].target = <<"dist">>
         /\ build.ops[1].op = (IF <<"dist">> \in build.dist0 THEN "rm"
                               ELSE "mkdir")
         /\ build.done # <<>> => build.done[1] = "cleanDist"
         /\ \A p \in build.dist0 : p # <<"dist">> => p \notin build.dist
    /\ \A k \in 1..Len(build.ops) :
         build.ops[k].op = "exec" =>
           /\ \A j \in 1..Len(build.ops) :
                build.ops[j].op \in {"cp", "rm", "mkdir"} => j < k
           /\ Len(build.done) >= 5
           /\ SubSeq(build.done, 1, 5) =
                <<"cleanDist", "copySpecFiles", "copySchemas",
                  "copySkillAssets", "copyLicenseNotices">>
    /\ \A k \in 1..Len(build.done) :
         build.done[k] = "buildValidationScript" => k = 6
    /\ (build.script = "skill" /\ build.ops # <<>>) =>
         /\ build.ops[1].target = <<"skills", "design-tokens", "spec">>
         /\ build.ops[1].op = (IF build.ops[1].target \in build.dist0
                               THEN "rm" ELSE "mkdir")
         /\ \A k \in 1..Len(build.ops) : build.ops[k].op # "exec"
         /\ \A p \in build.dist0 :
              (Len(p) = 4 /\ p[4] = "stale") => p \notin build.dist

\* C25 witness: with every source present and a stale destination, build.ts
\* ran to its end.
C25_Witness ==
  /\ build.pc = "exited"
  /\ build.script = "plugin"
  /\ build.exitCode = 0
  /\ <<"dist", "stale">> \in build.dist0
  /\ Len(build.done) = 6
  /\ \E k \in 1..Len(build.ops) : build.ops[k].op = "exec"
  /\ Cardinality({k \in 1..Len(build.ops) : build.ops[k].op = "cp"}) >= 6

====
